---- MODULE Spec2Model ----
(***************************************************************************)
(* A model of stormevents/nhc/atcf.py: read_atcf (input framing, the       *)
(* record-type filter, the collecting loop) and read_atcf_line (the        *)
(* decoder of one ATCF line), with normalize_atcf_value.                   *)
(*                                                                         *)
(* A Python str is a sequence of one-character strings, a bytes value a    *)
(* sequence of byte numbers.  Field positions are the source's 0-based     *)
(* positions (see At).                                                     *)
(***************************************************************************)
EXTENDS Integers, Sequences, FiniteSets, TLC

VARIABLES
    atcf,          \* the `atcf` argument of read_atcf
    record_types,  \* the `record_types` argument of read_atcf
    pc,            \* position in read_atcf: "frame", "loop", "collect", "done"
    lines,         \* the iterable `atcf` is rebound to by the framing code
    index,         \* number of lines the for loop has consumed
    records,       \* the `records` list
    result,        \* what read_atcf returned or raised
    arg,           \* the `line` argument of a direct read_atcf_line call
    ret            \* what that call returned or raised

vars == <<atcf, record_types, pc, lines, index, records, result, arg, ret>>

----------------------------------------------------------------------------
(* Bounds of the model. *)

\* longest input, in lines
MaxLines == 2
\* largest number of comma-separated fields of a line given to read_atcf_line
MaxFields == 29

----------------------------------------------------------------------------
(* Characters, bytes and the text primitives the source uses. *)

DigitChars == <<"0", "1", "2", "3", "4", "5", "6", "7", "8", "9">>
UpperChars == <<"A", "B", "C", "D", "E", "F", "G", "H", "I", "J", "K", "L", "M",
                "N", "O", "P", "Q", "R", "S", "T", "U", "V", "W", "X", "Y", "Z">>

Range(s) == {s[i] : i \in 1..Len(s)}

IndexOf(s, c) == CHOOSE i \in 1..Len(s) : s[i] = c

Digits == Range(DigitChars)

IsDigit(c) == c \in Digits

DigitValue(c) == IndexOf(DigitChars, c) - 1

\* the characters the inputs are written in (all ASCII)
Alphabet == Digits \cup Range(UpperChars) \cup {"\n", " ", ",", "-", "\\", "n"}

\* the UTF-8 encoding of a character of the alphabet
Ord ==
    [c \in Alphabet |->
        IF c \in Digits THEN 47 + IndexOf(DigitChars, c)
        ELSE IF c \in Range(UpperChars) THEN 64 + IndexOf(UpperChars, c)
        ELSE CASE c = "\n" -> 10
               [] c = " "  -> 32
               [] c = ","  -> 44
               [] c = "-"  -> 45
               [] c = "\\" -> 92
               [] c = "n"  -> 110]

Chr == [b \in {Ord[c] : c \in Alphabet} |-> CHOOSE c \in Alphabet : Ord[c] = b]

\* str.encode('UTF-8')
Encode(text) == [i \in 1..Len(text) |-> Ord[text[i]]]

\* bytes.decode('UTF-8') on one-byte code points
DecodeUTF8(bytes) == [i \in 1..Len(bytes) |-> Chr[bytes[i]]]

\* the k-th smallest member of a finite set of integers
Nth(S, k) == CHOOSE i \in S : Cardinality({j \in S : j < i}) = k - 1

\* str.strip(chars): the characters of cs are removed at both ends
StripChars(s, cs) ==
    LET keep == {i \in 1..Len(s) : s[i] \notin cs}
    IN  IF keep = {} THEN <<>>
        ELSE SubSeq(s, Nth(keep, 1), Nth(keep, Cardinality(keep)))

\* str.strip(): whitespace is removed at both ends
Strip(s) == StripChars(s, {" ", "\n"})

\* str.split(sep): the pieces between the separators, always at least one
Split(s, sep) ==
    LET cuts == {i \in 1..Len(s) : s[i] = sep}
        n == Cardinality(cuts)
    IN  [k \in 1..(n + 1) |->
            SubSeq(s, IF k = 1 THEN 1 ELSE Nth(cuts, k - 1) + 1,
                      IF k = n + 1 THEN Len(s) ELSE Nth(cuts, k) - 1)]

\* value.replace(r'\n', ''): every backslash + n pair is removed
RemoveEscapedNewline(s) ==
    LET hits == {i \in 1..(Len(s) - 1) : s[i] = "\\" /\ s[i + 1] = "n"}
        keep == {i \in 1..Len(s) : i \notin hits /\ (i - 1) \notin hits}
    IN  [k \in 1..Cardinality(keep) |-> s[Nth(keep, k)]]

\* the lines of a stream, each with its terminator nl (the last may lack it)
LinesOf(s, nl) ==
    LET cuts == {i \in 1..Len(s) : s[i] = nl}
        n == Cardinality(cuts)
        count == IF Len(s) > 0 /\ s[Len(s)] # nl THEN n + 1 ELSE n
    IN  [k \in 1..count |->
            SubSeq(s, IF k = 1 THEN 1 ELSE Nth(cuts, k - 1) + 1,
                      IF k = n + 1 THEN Len(s) ELSE Nth(cuts, k))]

\* file.readlines()
ReadLines(text) == LinesOf(text, "\n")

\* iteration over a binary stream
BinaryLines(bytes) == LinesOf(bytes, 10)

\* str.splitlines(): the terminators are dropped
SplitLines(text) ==
    LET ls == ReadLines(text)
    IN  [i \in 1..Len(ls) |-> IF ls[i][Len(ls[i])] = "\n"
                              THEN SubSeq(ls[i], 1, Len(ls[i]) - 1)
                              ELSE ls[i]]

----------------------------------------------------------------------------
(* Python values and exceptions. *)

StrVal(s) == [str |-> s]
IntVal(n) == [int |-> n]
\* a float, held as the integer number of tenths it equals (x * 0.1)
TenthsVal(n) == [tenths |-> n]
\* numpy.nan
NaN == [nan |-> TRUE]

Raise(e) == [error |-> e]

IsError(v) == "error" \in DOMAIN v

\* the Exception raised at lines 278-281
NoRadialWind == "Exception: No radial wind information for this storm"

RECURSIVE DigitsValue(_)
DigitsValue(s) ==
    IF s = <<>> THEN 0 ELSE 10 * DigitsValue(SubSeq(s, 1, Len(s) - 1)) + DigitValue(s[Len(s)])

AllDigits(s) == s # <<>> /\ \A i \in 1..Len(s) : IsDigit(s[i])

\* int(str) / float(str) on a stripped decimal literal: an optional sign and digits.
\* (The inputs are written without ".", "_", exponents or inf/nan spellings.)
ParseNumber(s) ==
    IF AllDigits(s) THEN IntVal(DigitsValue(s))
    ELSE IF s # <<>> /\ Head(s) = "-" /\ AllDigits(Tail(s)) THEN IntVal(0 - DigitsValue(Tail(s)))
    ELSE Raise("ValueError")

\* normalize_atcf_value(value, int) for a str value: '' is returned as it is
normalize_atcf_value(value) ==
    IF value = <<>> THEN StrVal(value) ELSE ParseNumber(value)

----------------------------------------------------------------------------
(* datetime: dateutil's parse of a 12-digit token, and + timedelta(hours). *)

IsLeap(y) == (y % 4 = 0 /\ y % 100 # 0) \/ y % 400 = 0

DaysInMonth(y, m) ==
    IF m = 2 THEN (IF IsLeap(y) THEN 29 ELSE 28)
    ELSE IF m \in {4, 6, 9, 11} THEN 30 ELSE 31

\* parse_date('YYYYMMDDhhmm')
parse_date(s) ==
    IF Len(s) # 12 \/ ~AllDigits(s) THEN Raise("ValueError")
    ELSE LET y  == DigitsValue(SubSeq(s, 1, 4))
             mo == DigitsValue(SubSeq(s, 5, 6))
             d  == DigitsValue(SubSeq(s, 7, 8))
             h  == DigitsValue(SubSeq(s, 9, 10))
             mi == DigitsValue(SubSeq(s, 11, 12))
         IN  IF mo \in 1..12 /\ d >= 1 /\ d <= DaysInMonth(y, mo) /\ h <= 23 /\ mi <= 59
             THEN [year |-> y, month |-> mo, day |-> d, hour |-> h, minute |-> mi]
             ELSE Raise("ValueError")

NextDay(t) ==
    IF t.day < DaysInMonth(t.year, t.month) THEN [t EXCEPT !.day = t.day + 1]
    ELSE IF t.month < 12 THEN [t EXCEPT !.day = 1, !.month = t.month + 1]
    ELSE [t EXCEPT !.day = 1, !.month = 1, !.year = t.year + 1]

PrevDay(t) ==
    IF t.day > 1 THEN [t EXCEPT !.day = t.day - 1]
    ELSE IF t.month > 1
         THEN [t EXCEPT !.day = DaysInMonth(t.year, t.month - 1), !.month = t.month - 1]
    ELSE [t EXCEPT !.day = 31, !.month = 12, !.year = t.year - 1]

RECURSIVE ShiftDays(_, _)
ShiftDays(t, k) ==
    IF k = 0 THEN t
    ELSE IF k > 0 THEN ShiftDays(NextDay(t), k - 1)
    ELSE ShiftDays(PrevDay(t), k + 1)

\* datetime + timedelta(hours=h)
AddHours(t, h) ==
    LET total == t.hour + h
    IN  ShiftDays([t EXCEPT !.hour = total % 24], total \div 24)

----------------------------------------------------------------------------
(* read_atcf_line, lines 216-329. *)

BEST == <<"B", "E", "S", "T">>
OFCL == <<"O", "F", "C", "L">>

\* lines 225-229: split on commas, strip every value, drop escaped newlines
Fields(line) ==
    LET values == Split(line, ",")
    IN  [i \in 1..Len(values) |-> RemoveEscapedNewline(Strip(values[i]))]

\* line[i], i counted from 0 as in the source
At(f, i) == IF i < Len(f) THEN StrVal(f[i + 1]) ELSE Raise("IndexError")

\* normalize_atcf_value(line[i], int)
Nullable(f, i) == IF i < Len(f) THEN normalize_atcf_value(f[i + 1]) ELSE Raise("IndexError")

\* Minutes without the test of the record type
MinutesOfAnyType(f) ==
    IF Len(f[4]) > 0 THEN f[4] ELSE <<"0", "0">>

\* lines 239-243: the minute digits appended to the base timestamp
Minutes(f) ==
    IF f[5] = BEST /\ Len(f[4]) > 0 THEN f[4] ELSE <<"0", "0">>

\* lines 245-250 (line[4] is known to exist)
Datetime(f) ==
    LET base == parse_date(f[3] \o Minutes(f))
    IN  IF IsError(base) THEN base
        ELSE IF Len(f) < 6 THEN Raise("IndexError")
        ELSE LET forecast_hours == ParseNumber(f[6])
             IN  IF IsError(forecast_hours) THEN forecast_hours
                 ELSE IF forecast_hours.int # 0 THEN AddHours(base, forecast_hours.int)
                 ELSE base

\* lines 252-258
Latitude(f) ==
    IF Len(f) < 7 THEN Raise("IndexError")
    ELSE LET latitude == f[7]
             north == ParseNumber(StripChars(latitude, {"N"}))
             south == ParseNumber(StripChars(latitude, {"S"}))
         IN  IF "N" \in Range(latitude)
             THEN (IF IsError(north) THEN north ELSE TenthsVal(north.int))
             ELSE IF "S" \in Range(latitude)
             THEN (IF IsError(south) THEN south ELSE TenthsVal(0 - south.int))
             ELSE Raise("TypeError")   \* str *= 0.1

\* lines 260-265: a value with neither E nor W is stored as the str it is
Longitude(f) ==
    IF Len(f) < 8 THEN Raise("IndexError")
    ELSE LET longitude == f[8]
             east == ParseNumber(StripChars(longitude, {"E"}))
             west == ParseNumber(StripChars(longitude, {"W"}))
         IN  IF "E" \in Range(longitude)
             THEN (IF IsError(east) THEN east ELSE TenthsVal(east.int))
             ELSE IF "W" \in Range(longitude)
             THEN (IF IsError(west) THEN west ELSE TenthsVal(0 - west.int))
             ELSE StrVal(longitude)

\* lines 275-281: only a ValueError is turned into the radial-wind Exception
Isotach(f) ==
    LET value == Nullable(f, 11)
    IN  IF IsError(value) /\ value.error = "ValueError" THEN Raise(NoRadialWind) ELSE value

\* lines 293-308: entry k (0, 1, 2) of the background_pressure triple
PressureAndRadii(f, k) == IF Len(f) > 18 THEN Nullable(f, 17 + k) ELSE NaN

\* lines 310-320: entry k (0, 1) of the direction / speed pair
DirectionAndSpeed(f, k) == IF Len(f) > 23 THEN Nullable(f, 25 + k) ELSE NaN

\* lines 322-327
StormName(f) == IF Len(f) > 27 THEN StrVal(f[28]) ELSE StrVal(<<>>)

\* the values of the record in the order the source computes them
Cells(f) ==
    << At(f, 0), At(f, 1), At(f, 4),
       IF Len(f) < 5 THEN Raise("IndexError") ELSE Datetime(f),
       Latitude(f), Longitude(f),
       Nullable(f, 8), Nullable(f, 9), At(f, 10),
       Isotach(f),
       At(f, 12), Nullable(f, 13), Nullable(f, 14), Nullable(f, 15), Nullable(f, 16),
       PressureAndRadii(f, 0), PressureAndRadii(f, 1), PressureAndRadii(f, 2),
       DirectionAndSpeed(f, 0), DirectionAndSpeed(f, 1),
       StormName(f) >>

\* the dict of the cells, or the first exception raised among them
RecordOf(c) ==
    IF \E i \in 1..Len(c) : IsError(c[i])
    THEN c[CHOOSE i \in 1..Len(c) : IsError(c[i]) /\ \A j \in 1..(i - 1) : ~IsError(c[j])]
    ELSE [record |->
            [basin |-> c[1], storm_number |-> c[2], record_type |-> c[3],
             datetime |-> c[4], latitude |-> c[5], longitude |-> c[6],
             max_sustained_wind_speed |-> c[7], central_pressure |-> c[8],
             development_level |-> c[9], isotach |-> c[10], quadrant |-> c[11],
             radius_for_NEQ |-> c[12], radius_for_SEQ |-> c[13],
             radius_for_SWQ |-> c[14], radius_for_NWQ |-> c[15],
             background_pressure |-> c[16],
             radius_of_last_closed_isobar |-> c[17],
             radius_of_maximum_winds |-> c[18],
             direction |-> c[19], speed |-> c[20], name |-> c[21]]]

\* lines 216-329
read_atcf_line(line) == RecordOf(Cells(Fields(line)))

----------------------------------------------------------------------------
(* read_atcf, lines 175-213. *)

BytesVal(b) == [bytes |-> b]

\* the two bytes a gzip member begins with (line 188)
GzipMagic == <<31, 139>>

\* gzip.GzipFile(fileobj=...): the payload of the container, which is modelled
\* as the magic bytes followed by the uncompressed bytes
Gunzip(data) == SubSeq(data, 3, Len(data))

Gzip(data) == GzipMagic \o data

\* lines 185-187: atcf.read(2) after a rewind
FirstTwoBytes(bytes) == SubSeq(bytes, 1, IF Len(bytes) < 2 THEN Len(bytes) ELSE 2)

\* lines 183-191: a binary stream
FrameBinary(a) ==
    LET first_two_bytes == FirstTwoBytes(a.bytes)
        gz == BinaryLines(Gunzip(a.bytes))
        plain == BinaryLines(a.bytes)
    IN  IF first_two_bytes = GzipMagic
        THEN [lines |-> [i \in 1..Len(gz) |-> BytesVal(gz[i])]]
        ELSE IF Len(first_two_bytes) = 0 THEN Raise("ValueError: empty file")
        ELSE [lines |-> [i \in 1..Len(plain) |-> BytesVal(plain[i])]]

StrLines(ls) == [lines |-> [i \in 1..Len(ls) |-> StrVal(ls[i])]]

\* line 194: isinstance(atcf, typing.TextIO) holds only of instances of classes
\* that derive from typing.TextIO; the io module's text streams do not
IsInstanceTextIO(a) == a.kind = "typing.TextIO"

\* FrameOther without the re-raise for a single line
FrameOtherKeepingOneLine(a) ==
    IF IsInstanceTextIO(a) THEN StrLines(ReadLines(a.data))
    ELSE IF a.kind # "str" THEN Raise("TypeError")
    ELSE IF a.open = "ok" THEN StrLines(ReadLines(a.data))
    ELSE IF a.open = "FileNotFoundError" THEN StrLines(SplitLines(a.data))
    ELSE Raise(a.open)

\* lines 192-201: anything that is not a BytesIO
FrameOther(a) ==
    IF IsInstanceTextIO(a) THEN StrLines(ReadLines(a.data))
    ELSE IF a.kind # "str" THEN Raise("TypeError")            \* open(<stream>)
    ELSE IF a.open = "ok" THEN StrLines(ReadLines(a.data))
    ELSE IF a.open = "FileNotFoundError"
         THEN (IF Len(SplitLines(a.data)) = 1
               THEN Raise("FileNotFoundError")
               ELSE StrLines(SplitLines(a.data)))
    ELSE Raise(a.open)

\* lines 183-201
Frame(a) == IF a.kind = "BytesIO" THEN FrameBinary(a) ELSE FrameOther(a)

\* lines 205-206
LineText(line) == IF "bytes" \in DOMAIN line THEN DecodeUTF8(line.bytes) ELSE line.str

\* FilterField without the strip()
FilterFieldUnstripped(text) ==
    LET values == Split(text, ",")
    IN  IF Len(values) < 5 THEN Raise("IndexError") ELSE StrVal(values[5])

\* line 207: line.split(',')[4].strip()
FilterField(text) ==
    LET values == Split(text, ",")
    IN  IF Len(values) < 5 THEN Raise("IndexError") ELSE StrVal(Strip(values[5]))

\* line 207: the condition of the if; an IndexError when a filter is given and
\* the line has fewer than five fields
Selected(types, text) ==
    IF ~types.given THEN [selected |-> TRUE]
    ELSE IF IsError(FilterField(text)) THEN FilterField(text)
    ELSE [selected |-> FilterField(text).str \in types.set]

\* AppendRecord inserting at the front
PrependRecord(recs, rec) == <<rec>> \o recs

\* line 208: records.append(...)
AppendRecord(recs, rec) == Append(recs, rec)

\* Retain skipping a line that fails to decode instead of raising
RetainSkippingBadLines(recs, sel, decoded) ==
    IF IsError(sel) THEN sel
    ELSE IF ~sel.selected \/ IsError(decoded) THEN [records |-> recs]
    ELSE [records |-> Append(recs, decoded.record)]

\* lines 207-208, given the value of the condition and the decoded line
Retain(recs, sel, decoded) ==
    IF IsError(sel) THEN sel
    ELSE IF ~sel.selected THEN [records |-> recs]
    ELSE IF IsError(decoded) THEN decoded
    ELSE [records |-> AppendRecord(recs, decoded.record)]

\* lines 205-208: one iteration of the loop, giving the new list or the exception
Iteration(recs, types, line) ==
    Retain(recs, Selected(types, LineText(line)), read_atcf_line(LineText(line)))

\* Finish without the test for an empty list
FinishWithAnyTable(recs, types) == [DataFrame |-> recs]

\* lines 210-213
Finish(recs, types) ==
    IF Len(recs) = 0
    THEN [error |-> "ValueError: no records found with type(s)", types |-> types]
    ELSE [DataFrame |-> recs]

----------------------------------------------------------------------------
(* The inputs. *)

Comma == <<",", " ">>

RECURSIVE Join(_, _)
Join(parts, sep) ==
    IF parts = <<>> THEN <<>>
    ELSE IF Len(parts) = 1 THEN parts[1]
    ELSE parts[1] \o sep \o Join(Tail(parts), sep)

\* an a-deck / b-deck line of the ATCF format, field by field (positions 0-28)
Template ==
    << <<"A", "L">>,
       <<"0", "9">>,
       <<"2", "0", "0", "5", "0", "8", "2", "9", "1", "2">>,
       <<>>,
       <<"B", "E", "S", "T">>,
       <<"0">>,
       <<"2", "4", "1", "N">>,
       <<"0", "8", "0", "0", "W">>,
       <<"6", "5">>,
       <<"1", "0", "0", "0">>,
       <<"T", "S">>,
       <<"3", "4">>,
       <<"N", "E", "Q">>,
       <<"1", "2", "0">>,
       <<"9", "0">>,
       <<"6", "0">>,
       <<"9", "0">>,
       <<"1", "0", "1", "3">>,
       <<"1", "5", "0">>,
       <<"2", "5">>,
       <<"0">>,
       <<"0">>,
       <<"L">>,
       <<"0">>,
       <<>>,
       <<"2", "7", "0">>,
       <<"1", "0">>,
       <<"K", "A", "T", "R", "I", "N", "A">>,
       <<"D">> >>

\* field i (from 0) of the template; columns past the last one hold "0"
TemplateField(i) == IF i < Len(Template) THEN Template[i + 1] ELSE <<"0">>

\* the first n fields of the template with the fields of `subst` replaced
LineOf(n, subst) ==
    Join([i \in 1..n |-> IF (i - 1) \in DOMAIN subst THEN subst[i - 1]
                         ELSE TemplateField(i - 1)], Comma)

\* field 2
BaseTimestamps ==
    { <<"2", "0", "0", "5", "0", "8", "2", "9", "1", "2">>,
      <<"2", "0", "0", "5", "1", "2", "3", "1", "1", "8">> }

\* field 3
MinuteFields ==
    { <<>>,
      <<"3", "0">> }

\* field 4
RecordTypes == {BEST, OFCL}

\* field 5
ForecastHours ==
    { <<"0">>,
      <<"1", "2">>,
      <<"-", "1", "8">>,
      <<"X">> }

\* fields 6 and 7
Coordinates ==
    { <<<<"2", "4", "1", "N">>, <<"0", "8", "0", "0", "W">>>>,
      <<<<"2", "4", "1", "S">>, <<"0", "8", "0", "0", "E">>>>,
      <<<<"9", "9", "9", "N">>, <<"0", "8", "0", "0", "W">>>>,
      <<<<"2", "4", "1", "N">>, <<"1", "9", "0", "0", "W">>>>,
      <<<<"2", "4", "1">>, <<"0", "8", "0", "0", "W">>>>,
      <<<<"2", "4", "1", "N">>, <<"0", "8", "0", "0">>>>,
      <<<<>>, <<>>>> }

\* field 11
IsotachFields ==
    { <<"3", "4">>,
      <<>>,
      <<"X", "X">> }

\* the lines read_atcf_line is called with directly
LineDomain ==
    { LineOf(n, (2 :> b) @@ (3 :> m) @@ (4 :> t) @@ (5 :> h) @@ (6 :> c[1]) @@ (7 :> c[2])
                @@ (11 :> i)) :
        n \in 1..MaxFields, b \in BaseTimestamps, m \in MinuteFields, t \in RecordTypes,
        h \in ForecastHours, c \in Coordinates, i \in IsotachFields }

\* the record type written with an escaped newline, as in the repr of a bytes line
EscapedBEST == <<"B", "E", "S", "T", "\\", "n">>

\* the lines the inputs of read_atcf are made of
Pool ==
    { LineOf(17, <<>>),                                     \* a BEST line
      LineOf(28, (4 :> OFCL) @@ (5 :> <<"1", "2">>)),       \* an OFCL forecast, with a name
      LineOf(17, (11 :> <<"X", "X">>)),                     \* BEST, isotach not a number
      LineOf(17, (4 :> EscapedBEST)),                       \* BEST\n as the record type
      <<>> }                                                \* an empty line

\* the sequences over S of length at most n
SeqsUpTo(S, n) == UNION {[1..k -> S] : k \in 0..n}

RECURSIVE Concat(_)
Concat(parts) == IF parts = <<>> THEN <<>> ELSE Head(parts) \o Concat(Tail(parts))

\* the text of a file of the given lines; the last line may lack its newline
Contents ==
    LET texts == {Concat([i \in 1..Len(ls) |-> Append(ls[i], "\n")]) : ls \in SeqsUpTo(Pool, MaxLines)}
    IN  texts \cup {SubSeq(t, 1, Len(t) - 1) : t \in texts \ {<<>>}}

\* the sources read_atcf is given: a binary stream, plain or gzip; a text stream
\* of the io module; an instance of a typing.TextIO subclass; a str or path
\* that names a file holding the text, or one open() fails on
Inputs ==
    UNION { { [kind |-> "BytesIO", bytes |-> Encode(t), open |-> "-"],
              [kind |-> "BytesIO", bytes |-> Gzip(Encode(t)), open |-> "-"],
              [kind |-> "TextIOWrapper", data |-> t, open |-> "-"],
              [kind |-> "typing.TextIO", data |-> t, open |-> "-"],
              [kind |-> "str", data |-> t, open |-> "ok"],
              [kind |-> "str", data |-> t, open |-> "FileNotFoundError"],
              [kind |-> "str", data |-> t, open |-> "OSError"] } : t \in Contents }

\* record_types: None, or a non-empty list of ATCF_RecordType values, which
\* lines 178-181 turn into their strings
Filters ==
    {[given |-> FALSE, set |-> {}]} \cup
    {[given |-> TRUE, set |-> S] : S \in (SUBSET {BEST, OFCL}) \ {{}}}

NoValue == [none |-> TRUE]

----------------------------------------------------------------------------
(* read_atcf as a state machine. *)

Init ==
    /\ atcf \in Inputs
    /\ record_types \in Filters
    /\ pc = "frame"
    /\ lines = <<>>
    /\ index = 0
    /\ records = <<>>
    /\ result = NoValue
    /\ arg = <<>>
    /\ ret = NoValue

\* lines 183-201
FrameInput ==
    /\ pc = "frame"
    /\ \E framed \in {Frame(atcf)} :
           IF IsError(framed)
           THEN /\ result' = framed
                /\ pc' = "done"
                /\ lines' = lines
           ELSE /\ lines' = framed.lines
                /\ pc' = "loop"
                /\ result' = result
    /\ UNCHANGED <<atcf, record_types, index, records, arg, ret>>

\* lines 204-208: one iteration of the for loop
NextLine ==
    /\ pc = "loop"
    /\ index < Len(lines)
    /\ \E step \in {Iteration(records, record_types, lines[index + 1])} :
           IF IsError(step)
           THEN /\ result' = step
                /\ pc' = "done"
                /\ UNCHANGED <<index, records>>
           ELSE /\ records' = step.records
                /\ index' = index + 1
                /\ UNCHANGED <<pc, result>>
    /\ UNCHANGED <<atcf, record_types, lines, arg, ret>>

\* lines 210-213: the loop has ended
Collect ==
    /\ pc = "loop"
    /\ index = Len(lines)
    /\ result' = Finish(records, record_types)
    /\ pc' = "done"
    /\ UNCHANGED <<atcf, record_types, lines, index, records, arg, ret>>

Next == FrameInput \/ NextLine \/ Collect

Spec == Init /\ [][Next]_vars

----------------------------------------------------------------------------
(* read_atcf_line called on its own. *)

InitLine ==
    /\ arg \in LineDomain
    /\ ret = NoValue
    /\ pc = "call"
    /\ atcf = NoValue
    /\ record_types = NoValue
    /\ lines = <<>>
    /\ index = 0
    /\ records = <<>>
    /\ result = NoValue

CallLine ==
    /\ pc = "call"
    /\ ret' = read_atcf_line(arg)
    /\ pc' = "returned"
    /\ UNCHANGED <<atcf, record_types, lines, index, records, result, arg>>

NextOfLine == CallLine

SpecLine == InitLine /\ [][NextOfLine]_vars

----------------------------------------------------------------------------
(* Properties of read_atcf_line, checked under SpecLine. *)

\* the direct call returned a record
LineDecoded == pc = "returned" /\ ~IsError(ret)

ArgFields == Fields(arg)

IsInt(v) == "int" \in DOMAIN v

\* the decode of the line cut down to its first 17 fields
DecodedUpTo17 == read_atcf_line(Join(SubSeq(Split(arg, ","), 1, 17), <<",">>))

\* the first 17 fields are valid: they decode, to numeric coordinates and an
\* integer isotach
ValidUpTo17 ==
    /\ Len(ArgFields) >= 17
    /\ ~IsError(DecodedUpTo17)
    /\ IsInt(DecodedUpTo17.record.isotach)
    /\ "tenths" \in DOMAIN DecodedUpTo17.record.latitude
    /\ "tenths" \in DOMAIN DecodedUpTo17.record.longitude

\* a line of 17 fields or more whose cells before the isotach raise nothing
ValidBeforeIsotach ==
    /\ Len(ArgFields) >= 17
    /\ \A i \in 1..9 : ~IsError(Cells(ArgFields)[i])

\* C4: a blank or non-numeric isotach field (position 11) makes the decode fail
\* with the radial-wind exception, so every record read_atcf_line returns
\* carries an integer isotach.
C4_IsotachAlwaysInteger ==
    pc = "returned" =>
        /\ ~IsError(ret) => IsInt(ret.record.isotach)
        /\ (ValidBeforeIsotach /\ ~IsInt(ParseNumber(ArgFields[12]))) =>
               ret = Raise(NoRadialWind)

\* C7: for an otherwise valid line of n >= 17 fields the decode never fails,
\* positions 17-19 are decoded when n > 18 and missing otherwise, positions
\* 25-26 when n > 23, position 27 is the name when n > 27, and the record has
\* the full set of columns.
C7_TrailingFieldsByCount ==
    (pc = "returned" /\ ValidUpTo17) =>
        /\ ~IsError(ret)
        /\ LET n == Len(ArgFields)
               r == ret.record
           IN  /\ IF n > 18
                  THEN /\ r.background_pressure = normalize_atcf_value(ArgFields[18])
                       /\ r.radius_of_last_closed_isobar = normalize_atcf_value(ArgFields[19])
                       /\ r.radius_of_maximum_winds = normalize_atcf_value(ArgFields[20])
                  ELSE /\ r.background_pressure = NaN
                       /\ r.radius_of_last_closed_isobar = NaN
                       /\ r.radius_of_maximum_winds = NaN
               /\ IF n > 23
                  THEN /\ r.direction = normalize_atcf_value(ArgFields[26])
                       /\ r.speed = normalize_atcf_value(ArgFields[27])
                  ELSE r.direction = NaN /\ r.speed = NaN
               /\ r.name = StrVal(IF n > 27 THEN ArgFields[28] ELSE <<>>)
               /\ DOMAIN r = DOMAIN read_atcf_line(LineOf(17, <<>>)).record

\* C8: every record has a numeric latitude within [-90, 90] and a numeric
\* longitude within [-180, 180] (held in tenths of a degree).
C8_CoordinatesNumericInRange ==
    LineDecoded =>
        /\ "tenths" \in DOMAIN ret.record.latitude
        /\ ret.record.latitude.tenths \in -900..900
        /\ "tenths" \in DOMAIN ret.record.longitude
        /\ ret.record.longitude.tenths \in -1800..1800

\* minutes from 2000-01-01T00:00 to the datetime t
RECURSIVE DaysBeforeYear(_)
DaysBeforeYear(y) ==
    IF y <= 2000 THEN 0 ELSE DaysBeforeYear(y - 1) + (IF IsLeap(y - 1) THEN 366 ELSE 365)

RECURSIVE DaysBeforeMonth(_, _)
DaysBeforeMonth(y, m) ==
    IF m <= 1 THEN 0 ELSE DaysBeforeMonth(y, m - 1) + DaysInMonth(y, m - 1)

MinutesSince2000(t) ==
    ((DaysBeforeYear(t.year) + DaysBeforeMonth(t.year, t.month) + t.day - 1) * 24 + t.hour) * 60
    + t.minute

IsDatetime(t) ==
    /\ t.month \in 1..12
    /\ t.day \in 1..DaysInMonth(t.year, t.month)
    /\ t.hour \in 0..23
    /\ t.minute \in 0..59

ExampleBase == <<"2", "0", "0", "5", "0", "8", "2", "9", "1", "2">>

\* C9: the record's datetime is the base timestamp (field 2) plus the minutes
\* of field 3 when the record type is BEST and field 3 is not empty, and no
\* minutes otherwise, plus the hours of field 5, with day rollover.
C9_DatetimeIsBasePlusOffsets ==
    LineDecoded =>
        LET f == ArgFields
            t == ret.record.datetime
            minutePart == IF f[5] = BEST /\ f[4] # <<>> THEN DigitsValue(f[4]) ELSE 0
            base == [year |-> DigitsValue(SubSeq(f[3], 1, 4)),
                     month |-> DigitsValue(SubSeq(f[3], 5, 6)),
                     day |-> DigitsValue(SubSeq(f[3], 7, 8)),
                     hour |-> DigitsValue(SubSeq(f[3], 9, 10)),
                     minute |-> 0]
        IN  /\ IsDatetime(t)
            /\ MinutesSince2000(t) =
                   MinutesSince2000(base) + minutePart + 60 * ParseNumber(f[6]).int
            /\ (f[3] = ExampleBase /\ f[5] = OFCL /\ f[6] = <<"1", "2">>) =>
                   t = [year |-> 2005, month |-> 8, day |-> 30, hour |-> 0, minute |-> 0]
            /\ (f[3] = ExampleBase /\ f[5] = BEST /\ f[4] = <<"3", "0">> /\ f[6] = <<"0">>) =>
                   t = [year |-> 2005, month |-> 8, day |-> 29, hour |-> 12, minute |-> 30]

\* an OFCL line with a minute field, whose forecast hours carry into the next day
C9_Witness ==
    /\ LineDecoded
    /\ ArgFields[5] = OFCL
    /\ ArgFields[4] = <<"3", "0">>
    /\ ArgFields[6] = <<"1", "2">>
    /\ ret.record.datetime.minute = 0
    /\ ret.record.datetime.day = 30

----------------------------------------------------------------------------
(* Properties of read_atcf, checked under Spec. *)

\* read_atcf returned a table
Returned == pc = "done" /\ "DataFrame" \in DOMAIN result

\* the text of the i-th line the loop iterates over
TextOfLine(i) == LineText(lines[i])

\* the 5th comma-delimited field of the i-th line, trimmed, is in the filter set
FifthFieldInFilter(i) ==
    /\ Len(Split(TextOfLine(i), ",")) >= 5
    /\ Strip(Split(TextOfLine(i), ",")[5]) \in record_types.set

\* the positions of the lines the filter retains: all of them without a filter
RetainedAmong(n) ==
    {i \in 1..n : record_types.given => FifthFieldInFilter(i)}

\* C1: with a filter every record has its record_type in the set, the lines
\* whose trimmed 5th field is in the set each contribute a record and no other
\* line does; without a filter every line contributes a record.
C1_FilterSelectsByRecordType ==
    pc \in {"loop", "done"} =>
        /\ Len(records) = Cardinality(RetainedAmong(index))
        /\ record_types.given =>
               \A k \in 1..Len(records) : records[k].record_type.str \in record_types.set
        /\ ~record_types.given => Len(records) = index
        /\ Returned => /\ result.DataFrame = records
                       /\ index = Len(lines)

\* a table returned under a filter that retained one line and skipped another
C1_Witness ==
    /\ Returned
    /\ record_types.given
    /\ \E i, j \in 1..Len(lines) : FifthFieldInFilter(i) /\ ~FifthFieldInFilter(j)

\* C2: the table holds the decode of the i-th retained line as its i-th
\* record, one record per retained line, in input order.
C2_RecordsInInputOrder ==
    pc \in {"loop", "done"} =>
        LET kept == RetainedAmong(index)
        IN  /\ records = [k \in 1..Cardinality(kept) |->
                             read_atcf_line(TextOfLine(Nth(kept, k))).record]
            /\ Returned => result.DataFrame = records /\ index = Len(lines)

\* a table of two different records
C2_Witness ==
    /\ Returned
    /\ Len(result.DataFrame) = 2
    /\ result.DataFrame[1] # result.DataFrame[2]

\* C3 as stated: a line that fails to decode anywhere in the input, under any
\* filter, leaves read_atcf without a table.
C3_AnyBadLineAborts ==
    Returned => \A i \in 1..Len(lines) : ~IsError(read_atcf_line(TextOfLine(i)))

\* C3 amended: a table is returned only if every line the filter retains
\* decodes and, under a filter, every line has a 5th field.
C3_RetainedBadLineAborts ==
    Returned =>
        /\ \A i \in RetainedAmong(Len(lines)) : ~IsError(read_atcf_line(TextOfLine(i)))
        /\ record_types.given =>
               \A i \in 1..Len(lines) : Len(Split(TextOfLine(i), ",")) >= 5

\* a table returned although a line outside the filter does not decode
C3_Witness ==
    /\ Returned
    /\ \E i \in 1..Len(lines) :
           /\ i \notin RetainedAmong(Len(lines))
           /\ IsError(read_atcf_line(TextOfLine(i)))

NoRecordsError == [error |-> "ValueError: no records found with type(s)", types |-> record_types]

\* C5: read_atcf returns no empty table: when the loop has consumed the input
\* and no record was collected it raises the no-records ValueError, whose
\* message holds the requested record types.
C5_NeverAnEmptyTable ==
    /\ [](Returned => Len(result.DataFrame) > 0)
    /\ [][(pc = "loop" /\ index = Len(lines) /\ records = <<>>)
             => (pc' = "done" /\ result' = NoRecordsError)]_vars

\* only BEST lines, filtered by OFCL: the error names OFCL
C5_Witness ==
    /\ pc = "done"
    /\ result = [error |-> "ValueError: no records found with type(s)",
                 types |-> [given |-> TRUE, set |-> {OFCL}]]
    /\ Len(lines) > 0
    /\ \A i \in 1..Len(lines) : Strip(Split(TextOfLine(i), ",")[5]) = BEST

\* the text a source holds
ContentOf(a) ==
    IF a.kind = "BytesIO"
    THEN DecodeUTF8(IF FirstTwoBytes(a.bytes) = GzipMagic THEN Gunzip(a.bytes) ELSE a.bytes)
    ELSE a.data

ContentLines == SplitLines(ContentOf(atcf))

\* the positions of the lines of the content the filter asks for
ContentRetained ==
    {i \in 1..Len(ContentLines) :
        record_types.given =>
            /\ Len(Split(ContentLines[i], ",")) >= 5
            /\ Strip(Split(ContentLines[i], ",")[5]) \in record_types.set}

\* every line of the content decodes and the filter retains one at least
ValidContent ==
    /\ \A i \in 1..Len(ContentLines) : ~IsError(read_atcf_line(ContentLines[i]))
    /\ ContentRetained # {}

\* the kinds of source C6 lists: bytes (plain or gzip), a text stream, an
\* existing path, a literal string of several lines that names no file
ListedSource ==
    \/ atcf.kind \in {"BytesIO", "TextIOWrapper", "typing.TextIO"}
    \/ atcf.kind = "str" /\ atcf.open = "ok"
    \/ atcf.kind = "str" /\ atcf.open = "FileNotFoundError" /\ Len(ContentLines) >= 2

\* C6: for valid content, whatever the kind of source, read_atcf succeeds and
\* the table is the same: the decodes of the content's retained lines in order.
C6_ResultIndependentOfSource ==
    (pc = "done" /\ ListedSource /\ ValidContent) =>
        /\ Returned
        /\ result.DataFrame = [k \in 1..Cardinality(ContentRetained) |->
                                  read_atcf_line(ContentLines[Nth(ContentRetained, k)]).record]

\* a str or path that names no file
MissingPath == atcf.kind = "str" /\ atcf.open = "FileNotFoundError"

====
